---------------------------- MODULE Spec2Model ----------------------------
(***************************************************************************)
(* The metronome of FusionAtom360/Metronome: the Metronome class (a        *)
(* lookahead scheduler over the Web Audio clock) and the practice mode     *)
(* that drives its tempo.                                                  *)
(*                                                                         *)
(* Numbers.  A tempo is held as an integer count of 1/16 BPM (BpmUnit):    *)
(* the practice engine multiplies and divides tempos by the pulse units    *)
(* 1, 2, 4, 8, 16, so that every tempo it computes from integer settings   *)
(* is a multiple of 1/16 and the model's arithmetic is the code's, with no *)
(* rounding.  A time is an integer count of 1/1200 s (TicksPerSecond);     *)
(* SchedSpec keeps the tempo on TempoGrid, whose beat durations and        *)
(* subdivision offsets are whole numbers of such ticks (BeatExact).        *)
(***************************************************************************)
EXTENDS Integers, Sequences, FiniteSets, TLC

VARIABLES
    bpm,            \* Metronome.bpm, in 1/16 BPM
    subdivision,    \* Metronome.subdivision
    audio,          \* Metronome.audioCtx: "none", or the context's state
    isRunning,      \* Metronome.isRunning
    timerID,        \* Metronome.timerID (NoTimer: null)
    nextTime,       \* Metronome.nextTime: <<>> (never assigned) or <<t>>
    timers,         \* the interval timers that are armed (setInterval ids)
    awaiting,       \* how many start() calls are suspended at
                    \* `await audioCtx.resume()`
    now,            \* audioCtx.currentTime
    clicks,         \* the events the latest _schedule() handed to _playClick
    lastClick,      \* time of the last event handed before that: <<>> or <<t>>
    lastBeat,       \* the last Main beat of the current run and the tempo
                    \* of its tick: <<>> or <<[time, bpm]>>
    hung,           \* a _schedule() call is in a loop that never ends
    scheduled,      \* the events handed to _playClick whose time has not
                    \* come: their oscillators and visual callbacks
    stopwatchInterval,  \* the stopwatch's interval timer is armed
    practiceMode,
    practiceSettings,
    practiceState,      \* currentBpm, currentPulse, correctCount,
                        \* consecutiveFails
    monitor,            \* practiceState._monitor is armed
    logged,         \* the entries the latest gesture appended to the
                    \* practice log
    message,        \* the message the latest gesture or monitor check
                    \* showed, or "none"
    stopwatchSeconds,
    idleCounted,    \* the seconds the stopwatch has counted in this session
                    \* while the scheduler was not running (up to IdleCap)
    tapTimes,       \* the tap buffer: Date.now() of the latest taps, in ms
    tapTimeout,     \* the handle of the idle reset: <<>> (null) or
                    \* <<the time it is due>>
    idleResets,     \* the idle resets that are armed, by the time they
                    \* are due
    tapMode,
    tapModeTimer,   \* <<>> (null) or <<the time exitTapMode() is due>>
    wall,           \* Date.now(), in ms
    lastTap         \* the time of the latest tap: <<>> or <<t>>

metroVars == <<bpm, subdivision, audio, isRunning, timerID, nextTime, timers,
               awaiting, now, clicks, lastClick, lastBeat, hung, scheduled>>

tapVars == <<tapTimes, tapTimeout, idleResets, tapMode, tapModeTimer, wall,
             lastTap>>

appVars == <<stopwatchInterval, practiceMode, practiceSettings,
             practiceState, monitor, logged, message, stopwatchSeconds,
             idleCounted, tapTimes, tapTimeout, idleResets, tapMode,
             tapModeTimer, wall, lastTap>>

vars == <<bpm, subdivision, audio, isRunning, timerID, nextTime, timers,
          awaiting, now, clicks, lastClick, lastBeat, hung, scheduled,
          stopwatchInterval, practiceMode, practiceSettings, practiceState,
          monitor, logged, message, stopwatchSeconds, idleCounted, tapTimes,
          tapTimeout, idleResets, tapMode, tapModeTimer, wall, lastTap>>

---------------------------------------------------------------------------
(* Units and bounds *)

BpmUnit == 4 * 4
TicksPerSecond == 12 * 100

Bpm(n) == n * BpmUnit

\* interval timers of the Metronome armed or about to be (a start() call
\* waiting for resume()) at one time
MaxTimers == 2
\* the audio clock advances at most this many steps of ClockStep
MaxClockSteps == 3
\* the subdivisions callers ask for
SubdivisionInputs == {0, 2, 3}
\* iterations of a never-ending _schedule() loop that are recorded
HungIterations == 2

\* the clock is read twice within one lookahead window
ClockStep == TicksPerSecond \div 20
\* the last reading of the audio clock
ClockEnd == MaxClockSteps * ClockStep

NoTimer == 0
DefaultBpm == 100
MinBpm == 20
MaxBpm == 300

\* tempos whose beat (60/bpm s) is a whole number of ticks divisible by
\* every subdivision
TempoGrid == {Bpm(60), Bpm(300)}
\* what callers hand to setBpm: the grid, and a value outside [20, 300]
\* (startPracticeMode hands over the starting BPM the user typed)
TempoInputs == TempoGrid \cup {Bpm(0 - 60)}

---------------------------------------------------------------------------
(* Metronome *)

LOOKAHEAD == TicksPerSecond \div 10

\* const beatDuration = 60 / this.bpm
BeatDuration(b) == (60 * TicksPerSecond * BpmUnit) \div b

\* const offset = (i / this.subdivision) * beatDuration
SubOffset(i, sub, bd) == (i * bd) \div sub

Click(t, isMain, at) == [time |-> t, main |-> isMain, at |-> at]

\* an alternative to the inner loop of _schedule(): i <= this.subdivision
SubClicksThroughBeat(nt, bd, sub, at) ==
    IF sub > 1
    THEN [i \in 1..sub |-> Click(nt + SubOffset(i, sub, bd), FALSE, at)]
    ELSE <<>>

\* for (let i = 1; i < this.subdivision; i++) this._playClick(nextTime + offset)
SubClicks(nt, bd, sub, at) ==
    IF sub > 1
    THEN [i \in 1..(sub - 1) |-> Click(nt + SubOffset(i, sub, bd), FALSE, at)]
    ELSE <<>>

\* The while loop of _schedule(), from cursor nt at clock reading `at`:
\* the events it hands over and the cursor it leaves.  fuel < 0: run to the
\* end; fuel >= 0: the first `fuel` iterations.
\* an alternative to the loop: `if` for `while`, one beat per tick
ScheduleOnce(nt, at, bd, sub, fuel) ==
    IF ~(nt < at + LOOKAHEAD) \/ fuel = 0
    THEN [next |-> nt, out |-> <<>>]
    ELSE [next |-> nt + bd,
          out  |-> <<Click(nt, TRUE, at)>> \o SubClicks(nt, bd, sub, at)]

\* an alternative to the loop: nextTime <= currentTime + 0.1
RECURSIVE ScheduleThrough(_, _, _, _, _)
ScheduleThrough(nt, at, bd, sub, fuel) ==
    IF ~(nt <= at + LOOKAHEAD) \/ fuel = 0
    THEN [next |-> nt, out |-> <<>>]
    ELSE LET rest == ScheduleThrough(nt + bd, at, bd, sub, fuel - 1)
         IN  [next |-> rest.next,
              out  |-> <<Click(nt, TRUE, at)>> \o SubClicks(nt, bd, sub, at)
                          \o rest.out]

RECURSIVE ScheduleLoop(_, _, _, _, _)
ScheduleLoop(nt, at, bd, sub, fuel) ==
    IF ~(nt < at + LOOKAHEAD) \/ fuel = 0
    THEN [next |-> nt, out |-> <<>>]
    ELSE LET rest == ScheduleLoop(nt + bd, at, bd, sub, fuel - 1)
         IN  [next |-> rest.next,
              out  |-> <<Click(nt, TRUE, at)>> \o SubClicks(nt, bd, sub, at)
                          \o rest.out]

\* The loop never ends: the cursor is inside the window and does not advance.
Diverges(nt, at, bd) == nt < at + LOOKAHEAD /\ bd <= 0

Mains(cs) == SelectSeq(cs, LAMBDA c : c.main)

\* _playClick(time, {main}): osc.start(time), and setTimeout(onBeat) for
\* the time that is left; an event whose time has come sounds at once.
\* Followed: the Main events, and the Sub events whose time the clock can
\* reach (ClockEnd).
Pending(cs, at) ==
    {[time |-> cs[i].time, main |-> cs[i].main] :
        i \in {j \in 1..Len(cs) :
                  /\ cs[j].time > at
                  /\ cs[j].main \/ cs[j].time <= ClockEnd}}

Last(s) == s[Len(s)]

\* setInterval(() => this._schedule(), 25) firing: _schedule()
Schedule ==
    /\ timers # {}
    /\ ~hung
    /\ LET bd   == BeatDuration(bpm)
           div  == Diverges(nextTime[1], now, bd)
           r    == ScheduleLoop(nextTime[1], now, bd, subdivision,
                                IF div THEN HungIterations ELSE 0 - 1)
           ms   == Mains(r.out)
       IN  /\ nextTime' = <<r.next>>
           /\ clicks' = r.out
           /\ lastClick' = IF clicks # <<>> THEN <<Last(clicks).time>>
                           ELSE lastClick
           /\ lastBeat' = IF ms # <<>>
                          THEN <<[time |-> Last(ms).time, bpm |-> bpm]>>
                          ELSE lastBeat
           /\ hung' = div
           /\ scheduled' = scheduled \cup Pending(r.out, now)
    /\ UNCHANGED appVars
    /\ UNCHANGED <<bpm, subdivision, audio, isRunning, timerID, timers,
                   awaiting, now>>

\* the id setInterval returns: one that no armed timer has
FreshTimer == CHOOSE id \in 1..MaxTimers : id \notin timers

\* start(), from `this.isRunning = true` on
StartRun ==
    /\ isRunning' = TRUE
    /\ nextTime' = <<now>>
    /\ timerID' = FreshTimer
    /\ timers' = timers \cup {FreshTimer}
    /\ lastBeat' = IF isRunning THEN lastBeat ELSE <<>>

\* start(), up to the await: returns at once when running; creates the
\* context when there is none (the platform hands it over suspended or
\* running); awaits resume() when it is suspended
StartCall ==
    IF isRunning
    THEN UNCHANGED <<audio, isRunning, timerID, nextTime, timers, awaiting,
                     lastBeat>>
    ELSE /\ Cardinality(timers) + awaiting < MaxTimers
         /\ \E st \in (IF audio = "none" THEN {"suspended", "running"}
                       ELSE {audio}) :
              /\ audio' = st
              /\ IF st = "suspended"
                 THEN /\ awaiting' = awaiting + 1
                      /\ UNCHANGED <<isRunning, nextTime, timerID, timers,
                                     lastBeat>>
                 ELSE /\ StartRun
                      /\ UNCHANGED awaiting

\* resume() resolves: one suspended start() goes on
Resumed ==
    /\ awaiting > 0
    /\ awaiting' = awaiting - 1
    /\ audio' = "running"
    /\ StartRun

\* alternative to a rejected resume(): start() swallows the failure and
\* goes on
RejectedSwallowed ==
    /\ awaiting > 0
    /\ awaiting' = awaiting - 1
    /\ UNCHANGED audio
    /\ StartRun

\* resume() rejects: the suspended start() throws
Rejected ==
    /\ awaiting > 0
    /\ awaiting' = awaiting - 1
    /\ UNCHANGED <<audio, isRunning, timerID, nextTime, timers, lastBeat>>

\* alternative to stop(): the events handed over are retracted
StopCallRetracting ==
    IF ~isRunning
    THEN UNCHANGED <<audio, isRunning, timerID, nextTime, timers, awaiting,
                     lastBeat, scheduled>>
    ELSE /\ timers' = timers \ {timerID}
         /\ isRunning' = FALSE
         /\ lastBeat' = <<>>
         /\ scheduled' = {}
         /\ UNCHANGED <<audio, timerID, nextTime, awaiting>>

\* stop()
StopCall ==
    IF ~isRunning
    THEN UNCHANGED <<audio, isRunning, timerID, nextTime, timers, awaiting,
                     lastBeat, scheduled>>
    ELSE /\ timers' = timers \ {timerID}
         /\ isRunning' = FALSE
         /\ lastBeat' = <<>>
         /\ UNCHANGED <<audio, timerID, nextTime, awaiting, scheduled>>

\* what start() and stop() leave alone
StartStopFrame ==
    /\ UNCHANGED <<bpm, subdivision, now, clicks, lastClick, hung>>
    /\ UNCHANGED appVars

Start == ~hung /\ StartCall /\ StartStopFrame /\ UNCHANGED scheduled

StartResumed == ~hung /\ Resumed /\ StartStopFrame /\ UNCHANGED scheduled

StartRejected == ~hung /\ Rejected /\ StartStopFrame /\ UNCHANGED scheduled

Stop == ~hung /\ StopCall /\ StartStopFrame

\* setBpm(bpm)
SetBpm(b) ==
    /\ ~hung
    /\ bpm' = b
    /\ UNCHANGED appVars
    /\ UNCHANGED <<subdivision, audio, isRunning, timerID, nextTime, timers,
                   awaiting, now, clicks, lastClick, lastBeat, hung,
                   scheduled>>

\* this.subdivision = Math.max(1, Math.floor(Number(n) || 1))
ClampSubdivision(n) == IF n < 1 THEN 1 ELSE n

\* setSubdivision(n)
SetSubdivision(n) ==
    /\ ~hung
    /\ subdivision' = ClampSubdivision(n)
    /\ UNCHANGED appVars
    /\ UNCHANGED <<bpm, audio, isRunning, timerID, nextTime, timers,
                   awaiting, now, clicks, lastClick, lastBeat, hung,
                   scheduled>>

\* the audio clock runs while the context does
AdvanceClock ==
    /\ ~hung
    /\ audio = "running"
    /\ now + ClockStep <= MaxClockSteps * ClockStep
    /\ now' = now + ClockStep
    /\ scheduled' = {e \in scheduled : e.time > now'}
    /\ UNCHANGED appVars
    /\ UNCHANGED <<bpm, subdivision, audio, isRunning, timerID, nextTime,
                   timers, awaiting, clicks, lastClick, lastBeat, hung>>

\* new Metronome(100): the constructor
MetronomeInit ==
    /\ bpm = Bpm(DefaultBpm)
    /\ subdivision = 1
    /\ audio = "none"
    /\ isRunning = FALSE
    /\ timerID = NoTimer
    /\ nextTime = <<>>
    /\ timers = {}
    /\ awaiting = 0
    /\ now = 0
    /\ clicks = <<>>
    /\ lastClick = <<>>
    /\ lastBeat = <<>>
    /\ hung = FALSE
    /\ scheduled = {}

---------------------------------------------------------------------------
(* The application: transport, tempo gestures, practice mode *)

Min(a, b) == IF a <= b THEN a ELSE b
Max(a, b) == IF a >= b THEN a ELSE b

\* Math.max(20, Math.min(300, x))
ClampBpm(x) == Max(Bpm(MinBpm), Min(Bpm(MaxBpm), x))

\* Math.round(x), Math.floor(x) of a tempo
RoundBpm(x) == ((x + BpmUnit \div 2) \div BpmUnit) * BpmUnit
FloorBpm(x) == (x \div BpmUnit) * BpmUnit

Pulses == <<"whole", "half", "quarter", "eighth", "sixteenth">>

\* the note value's denominator; 0 for a name that is none of the five
PulseInt(name) ==
    CASE name = "whole" -> 1
      [] name = "half" -> 2
      [] name = "quarter" -> 4
      [] name = "eighth" -> 8
      [] name = "sixteenth" -> 16
      [] OTHER -> 0

\* the click handlers of the two pulse selectors: the next of the five
NextPulse(name) ==
    CASE name = "whole" -> "half"
      [] name = "half" -> "quarter"
      [] name = "quarter" -> "eighth"
      [] name = "eighth" -> "sixteenth"
      [] name = "sixteenth" -> "whole"
      [] OTHER -> name

DefaultSettings ==
    [startingBpm |-> Bpm(60), startingPulse |-> "quarter",
     targetBpm |-> Bpm(120), targetPulse |-> "quarter",
     requiredCorrect |-> 1, increment |-> Bpm(10), penalty |-> Bpm(10)]

DefaultState ==
    [currentBpm |-> Bpm(60), correctCount |-> 0, consecutiveFails |-> 0,
     currentPulse |-> 4, stopwatchStart |-> 0]

\* What the user typed into the settings form, as Number() reads it: BPM
\* values and counts, 0 for an empty field.
PracticeForms ==
    { [starting |-> 60, target |-> 120, required |-> 1, increment |-> 10,
       penalty |-> 0],
      [starting |-> 90, target |-> 100, required |-> 2, increment |-> 40,
       penalty |-> 40],
      [starting |-> 400, target |-> 45, required |-> 0, increment |-> 0,
       penalty |-> 0 - 5] }

\* savePracticeSettings(): the form read into the settings
SavePracticeSettings(old, f) ==
    [old EXCEPT
       !.startingBpm = IF f.starting # 0 THEN Bpm(f.starting) ELSE @,
       !.targetBpm = IF f.target # 0 THEN Bpm(f.target) ELSE @,
       !.requiredCorrect = Max(1, IF f.required # 0 THEN f.required ELSE @),
       !.increment = Max(Bpm(1), IF f.increment # 0 THEN Bpm(f.increment)
                                 ELSE @),
       !.penalty = Max(0, Bpm(f.penalty))]

\* startMetronome(): metro.start(), then startStopwatch() once start() has
\* returned or thrown (at once unless start() waits for resume())
StartMetronome ==
    /\ StartCall
    /\ stopwatchInterval' = IF awaiting' > awaiting THEN stopwatchInterval
                            ELSE TRUE

\* stopMetronome(): metro.stop(), stopStopwatch()
StopMetronome ==
    /\ StopCall
    /\ stopwatchInterval' = FALSE

\* the page's script, run once: new Metronome(100), loadState()
SavedTempos == {Bpm(60)}

\* the stopwatch and the tap estimator when the script has run
IdleInit ==
    /\ stopwatchSeconds = 0
    /\ idleCounted = 0
    /\ tapTimes = <<>>
    /\ tapTimeout = <<>>
    /\ idleResets = {}
    /\ tapMode = FALSE
    /\ tapModeTimer = <<>>
    /\ wall = 0
    /\ lastTap = <<>>

Init ==
    /\ MetronomeInit
    /\ stopwatchInterval = FALSE
    /\ practiceMode = FALSE
    /\ practiceSettings = DefaultSettings
    /\ practiceState = DefaultState
    /\ monitor = FALSE
    /\ logged = <<>>
    /\ message = "none"
    /\ IdleInit

LoadedInit ==
    /\ bpm \in {Bpm(DefaultBpm)} \cup SavedTempos
    /\ subdivision = 1
    /\ audio = "none"
    /\ isRunning = FALSE
    /\ timerID = NoTimer
    /\ nextTime = <<>>
    /\ timers = {}
    /\ awaiting = 0
    /\ now = 0
    /\ clicks = <<>>
    /\ lastClick = <<>>
    /\ lastBeat = <<>>
    /\ hung = FALSE
    /\ scheduled = {}
    /\ stopwatchInterval = FALSE
    /\ practiceMode = FALSE
    /\ practiceSettings = DefaultSettings
    /\ practiceState = DefaultState
    /\ monitor = FALSE
    /\ logged = <<>>
    /\ message = "none"
    /\ IdleInit

\* the play/pause button
PlayPauseClick ==
    /\ ~hung
    /\ IF isRunning THEN StopMetronome ELSE StartMetronome
    /\ logged' = <<>>
    /\ message' = "none"
    /\ UNCHANGED <<bpm, subdivision, now, clicks, lastClick, hung,
                   practiceMode, practiceSettings, practiceState, monitor>>
    /\ UNCHANGED <<scheduled, stopwatchSeconds, idleCounted, tapVars>>

\* the continuation of a startMetronome() whose start() waited
StartMetronomeResumed ==
    /\ ~hung
    /\ Resumed
    /\ stopwatchInterval' = TRUE
    /\ UNCHANGED <<bpm, subdivision, now, clicks, lastClick, hung,
                   practiceMode, practiceSettings, practiceState, monitor,
                   logged, message>>
    /\ UNCHANGED <<scheduled, stopwatchSeconds, idleCounted, tapVars>>

StartMetronomeRejected ==
    /\ ~hung
    /\ Rejected
    /\ stopwatchInterval' = TRUE
    /\ UNCHANGED <<bpm, subdivision, now, clicks, lastClick, hung,
                   practiceMode, practiceSettings, practiceState, monitor,
                   logged, message>>
    /\ UNCHANGED <<scheduled, stopwatchSeconds, idleCounted, tapVars>>

\* a gesture that only sets the tempo: setBpm, updateBpmDisplay, saveState
TempoGesture(b) ==
    /\ ~hung
    /\ bpm' = b
    /\ logged' = <<>>
    /\ message' = "none"
    /\ UNCHANGED <<subdivision, audio, isRunning, timerID, nextTime, timers,
                   awaiting, now, clicks, lastClick, lastBeat, hung,
                   stopwatchInterval, practiceMode, practiceSettings,
                   practiceState, monitor>>
    /\ UNCHANGED <<scheduled, stopwatchSeconds, idleCounted, tapVars>>

\* what a drag changes the tempo by, in BPM
DragChanges == {280}

\* the tempos at which the user adjusts the tempo by hand
AdjustFrom == {Bpm(DefaultBpm)} \cup SavedTempos

\* mousedown on the tempo circle (ignored in practice mode), then mousemove
MouseDrag(d) ==
    /\ ~practiceMode
    /\ bpm \in AdjustFrom
    /\ TempoGesture(ClampBpm(bpm + Bpm(d)))

\* touchstart on the tempo circle, then touchmove
TouchDrag(d) ==
    /\ bpm \in AdjustFrom
    /\ TempoGesture(ClampBpm(bpm + Bpm(d)))

\* _doIncrement(delta)
DoIncrement(delta) ==
    /\ bpm \in AdjustFrom
    /\ TempoGesture(ClampBpm(RoundBpm(bpm + Bpm(delta))))

\* a change of one of the five number fields of the settings form:
\* savePracticeSettings()
SettingsChange ==
    /\ ~hung
    /\ ~practiceMode
    /\ \E f \in PracticeForms :
         practiceSettings' = SavePracticeSettings(practiceSettings, f)
    /\ logged' = <<>>
    /\ message' = "none"
    /\ UNCHANGED <<metroVars, stopwatchInterval, practiceMode, practiceState,
                   monitor>>
    /\ UNCHANGED <<scheduled, stopwatchSeconds, idleCounted, tapVars>>

\* the pulses at which the user clicks a pulse selector
PulseClickFrom == {"quarter"}

\* the two pulse selectors of the settings form (the form cannot be opened
\* in practice mode): the next pulse, then savePracticeSettings()
PulseClick ==
    /\ ~hung
    /\ ~practiceMode
    /\ \E field \in {"startingPulse", "targetPulse"}, f \in PracticeForms :
         /\ practiceSettings[field] \in PulseClickFrom
         /\ practiceSettings' =
              SavePracticeSettings(
                 [practiceSettings EXCEPT ![field] = NextPulse(@)], f)
    /\ logged' = <<>>
    /\ message' = "none"
    /\ UNCHANGED <<metroVars, stopwatchInterval, practiceMode, practiceState,
                   monitor>>
    /\ UNCHANGED <<scheduled, stopwatchSeconds, idleCounted, tapVars>>

\* startPracticeMode(): the pulse the session starts at
StartPulse(name, old) == IF PulseInt(name) # 0 THEN PulseInt(name) ELSE old

\* the Start button of the settings form: savePracticeSettings(),
\* startPracticeMode()
StartPracticeClick(f) ==
    /\ ~hung
    /\ ~practiceMode
    /\ LET st == SavePracticeSettings(practiceSettings, f)
       IN  /\ practiceSettings' = st
           /\ practiceMode' = TRUE
           /\ practiceState' =
                [currentBpm |-> st.startingBpm,
                 correctCount |-> 0,
                 consecutiveFails |-> 0,
                 currentPulse |-> StartPulse(st.startingPulse,
                                             practiceState.currentPulse),
                 stopwatchStart |-> stopwatchSeconds]
           /\ bpm' = st.startingBpm
           /\ logged' = <<[type |-> "start", bpm |-> st.startingBpm]>>
    /\ StartMetronome
    /\ monitor' = TRUE
    /\ message' = "saved"
    /\ UNCHANGED <<subdivision, now, clicks, lastClick, hung>>
    /\ idleCounted' = 0
    /\ UNCHANGED <<scheduled, stopwatchSeconds, tapVars>>

\* exitPracticeMode(): what it logs
ExitEntry == [type |-> "exit", bpm |-> bpm]

\* alternative to exitPracticeMode(): the exit also stops the metronome
ExitPracticeStopping ==
    /\ ~hung
    /\ practiceMode
    /\ practiceMode' = FALSE
    /\ monitor' = FALSE
    /\ logged' = <<ExitEntry>>
    /\ message' = "exited"
    /\ StopMetronome
    /\ UNCHANGED <<bpm, subdivision, now, clicks, lastClick, hung,
                   practiceSettings, practiceState>>
    /\ UNCHANGED <<stopwatchSeconds, idleCounted, tapVars>>

\* the exit button (shown in practice mode only)
ExitPracticeClick ==
    /\ ~hung
    /\ practiceMode
    /\ practiceMode' = FALSE
    /\ monitor' = FALSE
    /\ logged' = <<ExitEntry>>
    /\ message' = "exited"
    /\ UNCHANGED <<metroVars, stopwatchInterval, practiceSettings,
                   practiceState>>
    /\ UNCHANGED <<scheduled, stopwatchSeconds, idleCounted, tapVars>>

\* alternatives to the comparison of handlePass(): the tempos compared
\* without their pulses; a strict comparison
TargetReachedRaw(cur, pulse, target, targetPulse) == cur >= target

TargetReachedStrict(cur, pulse, target, targetPulse) ==
    cur * targetPulse > target * pulse

\* currentBpm / currentPulse >= targetBpm / targetPulseInt
TargetReached(cur, pulse, target, targetPulse) ==
    cur * targetPulse >= target * pulse

\* alternatives to the level-up of handlePass(): the increment without the
\* cap; no increment
LevelUpUncapped(cur, pulse, target, targetPulse, inc) == cur + inc

LevelUpStuck(cur, pulse, target, targetPulse, inc) == cur

\* Math.min(targetBpm / targetPulseInt * currentPulse, currentBpm + increment)
LevelUp(cur, pulse, target, targetPulse, inc) ==
    Min((target * pulse) \div targetPulse, cur + inc)

\* alternative to the reset of handlePass(): the count is kept
FailsKeptByPass(fails) == fails

\* practiceState.consecutiveFails = 0
FailsAfterPass(fails) == 0

\* handlePass()
HandlePass ==
    /\ ~hung
    /\ IF ~practiceMode
       THEN /\ logged' = <<>>
            /\ message' = "none"
            /\ UNCHANGED <<metroVars, stopwatchInterval, practiceMode,
                           practiceSettings, practiceState, monitor>>
       ELSE LET count == practiceState.correctCount + 1
                cur   == practiceState.currentBpm
                pulse == practiceState.currentPulse
                tp    == PulseInt(practiceSettings.targetPulse)
            IN  IF count < practiceSettings.requiredCorrect
                THEN /\ practiceState' =
                          [practiceState EXCEPT !.correctCount = count,
                                                !.consecutiveFails =
                                                    FailsAfterPass(@)]
                     /\ logged' = <<>>
                     /\ message' = "none"
                     /\ UNCHANGED <<metroVars, stopwatchInterval,
                                    practiceMode, practiceSettings, monitor>>
                ELSE IF TargetReached(cur, pulse,
                                      practiceSettings.targetBpm, tp)
                THEN /\ practiceState' =
                          [practiceState EXCEPT !.correctCount = count,
                                                !.consecutiveFails =
                                                    FailsAfterPass(@)]
                     /\ logged' = <<[type |-> "pass", bpm |-> cur],
                                    ExitEntry>>
                     /\ message' = "congratulations"
                     /\ practiceMode' = FALSE
                     /\ monitor' = FALSE
                     /\ UNCHANGED <<metroVars, stopwatchInterval,
                                    practiceSettings>>
                ELSE LET new == LevelUp(cur, pulse,
                                        practiceSettings.targetBpm, tp,
                                        practiceSettings.increment)
                     IN  /\ practiceState' =
                               [practiceState EXCEPT !.currentBpm = new,
                                                     !.correctCount = 0,
                                                     !.consecutiveFails =
                                                    FailsAfterPass(@)]
                         /\ bpm' = new
                         /\ logged' = <<[type |-> "level-up", bpm |-> new]>>
                         /\ message' = "none"
                         /\ UNCHANGED <<subdivision, audio, isRunning,
                                        timerID, nextTime, timers, awaiting,
                                        now, clicks, lastClick, lastBeat,
                                        hung, stopwatchInterval,
                                        practiceMode, practiceSettings,
                                        monitor>>
    /\ UNCHANGED <<scheduled, stopwatchSeconds, idleCounted, tapVars>>

\* alternative to the penalty of handleFail(): no floor
PenalizedUnfloored(cur, penalty) == cur - penalty

\* Math.max(20, currentBpm - penalty)
Penalized(cur, penalty) == Max(Bpm(MinBpm), cur - penalty)

BreakAfter == 3

\* alternative to the break test of handleFail(): one fail early
BreakDueEarly(fails) == fails >= BreakAfter - 1

\* consecutiveFails >= 3
BreakDue(fails) == fails >= BreakAfter

\* handleFail()
HandleFail ==
    /\ ~hung
    /\ IF ~practiceMode
       THEN /\ logged' = <<>>
            /\ message' = "none"
            /\ UNCHANGED <<metroVars, stopwatchInterval, practiceMode,
                           practiceSettings, practiceState, monitor>>
       ELSE LET fails == practiceState.consecutiveFails + 1
                new   == Penalized(practiceState.currentBpm,
                                   practiceSettings.penalty)
            IN  /\ practiceState' =
                      [practiceState EXCEPT
                         !.consecutiveFails =
                             IF BreakDue(fails) THEN 0 ELSE fails,
                         !.correctCount = 0,
                         !.currentBpm = new]
                /\ message' = IF BreakDue(fails) THEN "break" ELSE "none"
                /\ bpm' = new
                /\ logged' = <<[type |-> "fail", bpm |-> new]>>
                /\ UNCHANGED <<subdivision, audio, isRunning, timerID,
                               nextTime, timers, awaiting, now, clicks,
                               lastClick, lastBeat, hung, stopwatchInterval,
                               practiceMode, practiceSettings, monitor>>
    /\ UNCHANGED <<scheduled, stopwatchSeconds, idleCounted, tapVars>>

\* Math.min(300, Math.floor(metro.bpm * 2))
Doubled(b) == Min(Bpm(MaxBpm), FloorBpm(b * 2))

\* Math.max(20, Math.floor(metro.bpm / 2))
Halved(b) == Max(Bpm(MinBpm), ((b \div 2) \div BpmUnit) * BpmUnit)

MaxPulse == 16

\* alternative to the pulse change: the gesture also restarts the count
ScalePulseRestarting(newBpm, newPulse) ==
    /\ bpm' = newBpm
    /\ practiceState' = [practiceState EXCEPT !.currentBpm = newBpm,
                                              !.currentPulse = newPulse,
                                              !.correctCount = 0]
    /\ logged' = <<>>
    /\ message' = "none"
    /\ UNCHANGED <<subdivision, audio, isRunning, timerID, nextTime, timers,
                   awaiting, now, clicks, lastClick, lastBeat, hung,
                   stopwatchInterval, practiceMode, practiceSettings, monitor>>
    /\ UNCHANGED <<scheduled, stopwatchSeconds, idleCounted, tapVars>>

\* a practice gesture that changes the pulse unit
ScalePulse(newBpm, newPulse) ==
    /\ bpm' = newBpm
    /\ practiceState' = [practiceState EXCEPT !.currentBpm = newBpm,
                                              !.currentPulse = newPulse]
    /\ logged' = <<>>
    /\ message' = "none"
    /\ UNCHANGED <<subdivision, audio, isRunning, timerID, nextTime, timers,
                   awaiting, now, clicks, lastClick, lastBeat, hung,
                   stopwatchInterval, practiceMode, practiceSettings, monitor>>
    /\ UNCHANGED <<scheduled, stopwatchSeconds, idleCounted, tapVars>>

\* startHoldInc(): the + button (x in practice mode, where it does nothing
\* at the fastest pulse unit); outside practice mode a held button repeats
\* the step
StartHoldInc ==
    IF practiceMode
    THEN /\ ~hung
         /\ IF practiceState.currentPulse < MaxPulse
            THEN ScalePulse(Doubled(bpm), practiceState.currentPulse * 2)
            ELSE TempoGesture(bpm)
    ELSE DoIncrement(1)

\* startHoldDec(): the - button (/ in practice mode)
StartHoldDec ==
    IF practiceMode
    THEN /\ ~hung
         /\ IF practiceState.currentPulse > 1
            THEN ScalePulse(Halved(bpm), practiceState.currentPulse \div 2)
            ELSE TempoGesture(bpm)
    ELSE DoIncrement(0 - 1)

Next ==
    \/ PlayPauseClick
    \/ StartMetronomeResumed
    \/ StartMetronomeRejected
    \/ \E d \in DragChanges : MouseDrag(d)
    \/ \E d \in DragChanges : TouchDrag(d)
    \/ SettingsChange
    \/ PulseClick
    \/ \E f \in PracticeForms : StartPracticeClick(f)
    \/ ExitPracticeClick
    \/ HandlePass
    \/ HandleFail
    \/ StartHoldInc
    \/ StartHoldDec

Spec == LoadedInit /\ [][Next]_vars

---------------------------------------------------------------------------
(* The tap estimator, on the wall clock.  Timers are punctual: the clock   *)
(* does not pass the time a timer is due before its callback has run.      *)

TapStep == 5 * 100

MaxWallSteps == 14

MaxTaps == 5
IdleResetMs == 5000
TapModeMs == 2000
MinuteMs == 60000

Range(f) == {f[i] : i \in DOMAIN f}

\* alternative to Math.round: Math.floor
TapFloor(num, den) == num \div den

\* Math.round(num / den), num >= 0, den > 0
TapRound(num, den) == (2 * num + den) \div (2 * den)

\* handleTap(): the tempo of a buffer of two taps or more; the intervals'
\* sum is the last tap minus the first, and 60000 / 0 is Infinity, which
\* Math.min takes to 300
TapEstimate(ts) ==
    LET span == ts[Len(ts)] - ts[1]
    IN  IF span = 0 THEN Bpm(MaxBpm)
        ELSE ClampBpm(Bpm(TapRound(MinuteMs * (Len(ts) - 1), span)))

\* tapTimes.push(now), tapTimes.shift() beyond five
Pushed(ts, t) ==
    LET all == Append(ts, t)
    IN  IF Len(all) > MaxTaps THEN Tail(all) ELSE all

\* a click on the tempo circle: handleTap(), enterTapMode()
Tap ==
    /\ ~hung
    /\ ~practiceMode
    /\ tapTimes' = Pushed(tapTimes, wall)
    /\ idleResets' = (idleResets \ Range(tapTimeout))
                        \cup {wall + IdleResetMs}
    /\ tapTimeout' = <<wall + IdleResetMs>>
    /\ bpm' = IF Len(tapTimes') >= 2 THEN TapEstimate(tapTimes') ELSE bpm
    /\ tapMode' = TRUE
    /\ tapModeTimer' = <<wall + TapModeMs>>
    /\ lastTap' = <<wall>>
    /\ logged' = <<>>
    /\ message' = "none"
    /\ UNCHANGED <<subdivision, audio, isRunning, timerID, nextTime, timers,
                   awaiting, now, clicks, lastClick, lastBeat, hung,
                   stopwatchInterval, practiceMode, practiceSettings,
                   practiceState, monitor, stopwatchSeconds, idleCounted,
                   wall, scheduled>>

\* alternative to exitTapMode(): the buffer is kept
ExitTapModeKeeping ==
    /\ tapMode' = FALSE
    /\ tapModeTimer' = <<>>
    /\ tapTimes' = tapTimes
    /\ idleResets' = idleResets \ Range(tapTimeout)
    /\ tapTimeout' = <<>>

\* exitTapMode()
ExitTapMode ==
    /\ tapMode' = FALSE
    /\ tapModeTimer' = <<>>
    /\ tapTimes' = <<>>
    /\ idleResets' = idleResets \ Range(tapTimeout)
    /\ tapTimeout' = <<>>

\* the timer of enterTapMode() fires, 2 s after the latest tap
TapModeTimeout ==
    /\ ~hung
    /\ tapModeTimer # <<>>
    /\ tapModeTimer[1] <= wall
    /\ ExitTapMode
    /\ UNCHANGED <<metroVars, stopwatchInterval, practiceMode,
                   practiceSettings, practiceState, monitor, logged, message,
                   stopwatchSeconds, idleCounted, wall, lastTap>>

\* the timer of handleTap() fires, 5 s after the latest tap.  It never
\* does: exitTapMode() cancels it 2 s after the same tap
\* (IdleResetNeverDue), so that no behaviour takes this step.
IdleReset ==
    /\ ~hung
    /\ \E d \in idleResets :
         /\ d <= wall
         /\ idleResets' = idleResets \ {d}
    /\ tapTimes' = <<>>
    /\ UNCHANGED <<metroVars, stopwatchInterval, practiceMode,
                   practiceSettings, practiceState, monitor, logged, message,
                   stopwatchSeconds, idleCounted, tapTimeout, tapMode,
                   tapModeTimer, wall, lastTap>>

IdleResetNeverDue == \A d \in idleResets : wall < d

\* time passes
AdvanceWall ==
    /\ wall + TapStep <= MaxWallSteps * TapStep
    /\ tapModeTimer # <<>> => wall < tapModeTimer[1]
    /\ IdleResetNeverDue
    /\ wall' = wall + TapStep
    /\ UNCHANGED <<metroVars, stopwatchInterval, practiceMode,
                   practiceSettings, practiceState, monitor, logged, message,
                   stopwatchSeconds, idleCounted, tapTimes, tapTimeout,
                   idleResets, tapMode, tapModeTimer, lastTap>>

TapNext ==
    \/ Tap
    \/ TapModeTimeout
    \/ AdvanceWall

TapSpec == LoadedInit /\ [][TapNext]_vars

---------------------------------------------------------------------------
(* The fatigue monitor of a practice session, on the stopwatch *)

FatigueSeconds == 30 * 60

MaxStopwatch == FatigueSeconds + 2

\* idleCounted is exact below IdleCap; at IdleCap fewer than FatigueSeconds
\* of the seconds counted were seconds of the scheduler running
IdleCap == MaxStopwatch - FatigueSeconds + 1

\* activeElapsed >= 30 * 60
FatigueDue(elapsed) == elapsed >= FatigueSeconds

\* the stopwatch's interval timer fires
StopwatchTick ==
    /\ ~hung
    /\ stopwatchInterval
    /\ stopwatchSeconds < MaxStopwatch
    /\ stopwatchSeconds' = stopwatchSeconds + 1
    /\ idleCounted' = IF practiceMode /\ ~isRunning
                      THEN Min(idleCounted + 1, IdleCap)
                      ELSE idleCounted
    /\ UNCHANGED <<metroVars, stopwatchInterval, practiceMode,
                   practiceSettings, practiceState, monitor, logged, message,
                   tapVars>>

\* the monitor's interval timer fires.  Its message has the text of the
\* break suggestion of handleFail(); "fatigue" tells the monitor's apart.
MonitorTick ==
    /\ ~hung
    /\ monitor
    /\ IF FatigueDue(stopwatchSeconds - practiceState.stopwatchStart)
       THEN /\ message' =
                 IF practiceState.currentBpm < practiceSettings.targetBpm
                 THEN "fatigue" ELSE message
            /\ monitor' = FALSE
       ELSE UNCHANGED <<message, monitor>>
    /\ UNCHANGED <<metroVars, stopwatchInterval, practiceMode,
                   practiceSettings, practiceState, logged,
                   stopwatchSeconds, idleCounted, tapVars>>

\* the stopwatch readings at which the user acts
GestureAt == {0, 1, FatigueSeconds, FatigueSeconds + 1}

TimedPlayPause == stopwatchSeconds \in GestureAt /\ PlayPauseClick

TimedResumed == stopwatchSeconds \in GestureAt /\ StartMetronomeResumed

TimedRejected == stopwatchSeconds \in GestureAt /\ StartMetronomeRejected

TimedStartPractice ==
    /\ stopwatchSeconds \in GestureAt
    /\ \E f \in PracticeForms : StartPracticeClick(f)

TimedExitPractice == stopwatchSeconds \in GestureAt /\ ExitPracticeClick

TimedPass == stopwatchSeconds \in GestureAt /\ practiceMode /\ HandlePass

MonitorNext ==
    \/ StopwatchTick
    \/ MonitorTick
    \/ TimedPlayPause
    \/ TimedResumed
    \/ TimedRejected
    \/ TimedStartPractice
    \/ TimedExitPractice
    \/ TimedPass

MonitorSpec == LoadedInit /\ [][MonitorNext]_vars

---------------------------------------------------------------------------
(* A practice session in which the user only presses pass *)

MaxRequired == 2

PassIncrements == {Bpm(10), Bpm(40)}
PassTargets == {Bpm(60), Bpm(120)}
PassTempos == {Bpm(MinBpm), Bpm(DefaultBpm), Bpm(MaxBpm)}
PulseUnits == {PulseInt(Pulses[i]) : i \in 1..Len(Pulses)}

\* any valid settings, any Active state, the metronome running
PassInit ==
    /\ \E target \in PassTargets, tp \in 1..Len(Pulses),
          req \in 1..MaxRequired, inc \in PassIncrements :
         practiceSettings =
            [DefaultSettings EXCEPT !.targetBpm = target,
                                    !.targetPulse = Pulses[tp],
                                    !.requiredCorrect = req,
                                    !.increment = inc]
    /\ \E cur \in PassTempos, pulse \in PulseUnits,
          count \in 0..(MaxRequired - 1) :
         /\ count < practiceSettings.requiredCorrect
         /\ practiceState = [currentBpm |-> cur, correctCount |-> count,
                             consecutiveFails |-> 0, currentPulse |-> pulse,
                             stopwatchStart |-> 0]
    /\ bpm = practiceState.currentBpm
    /\ subdivision = 1
    /\ audio = "running"
    /\ isRunning = TRUE
    /\ timerID = 1
    /\ nextTime = <<0>>
    /\ timers = {1}
    /\ awaiting = 0
    /\ now = 0
    /\ clicks = <<>>
    /\ lastClick = <<>>
    /\ lastBeat = <<>>
    /\ hung = FALSE
    /\ scheduled = {}
    /\ stopwatchInterval = TRUE
    /\ practiceMode = TRUE
    /\ monitor = TRUE
    /\ logged = <<>>
    /\ message = "none"
    /\ IdleInit

PassNext == HandlePass

PassSpec == PassInit /\ [][PassNext]_vars /\ WF_vars(HandlePass)

\* Sessions started from a form whose starting BPM and penalty are typed
\* freely (the number fields take any number), then passes and fails
FailForms ==
    { [starting |-> s, target |-> 120, required |-> 2, increment |-> 10,
       penalty |-> p] : s \in {10, 30, 60}, p \in {0 - 5, 5, 40} }

FailStart == \E f \in FailForms : StartPracticeClick(f)

FailNext ==
    \/ FailStart
    \/ HandlePass
    \/ HandleFail
    \/ ExitPracticeClick

FailSpec == LoadedInit /\ [][FailNext]_vars

---------------------------------------------------------------------------
(* The Metronome under any caller, on its audio clock *)

SchedInit == Init

SetBpmCall == \E b \in TempoInputs : SetBpm(b)

SetSubdivisionCall == \E n \in SubdivisionInputs : SetSubdivision(n)

SchedNext ==
    \/ Start
    \/ StartResumed
    \/ StartRejected
    \/ Stop
    \/ SetBpmCall
    \/ SetSubdivisionCall
    \/ Schedule
    \/ AdvanceClock

SchedSpec == SchedInit /\ [][SchedNext]_vars

\* the model's arithmetic is exact: no division rounds
BeatExact ==
    /\ BeatDuration(bpm) * bpm = 60 * TicksPerSecond * BpmUnit
    /\ \A s \in {ClampSubdivision(n) : n \in SubdivisionInputs} :
          \A i \in 1..s : SubOffset(i, s, BeatDuration(bpm)) * s
                             = i * BeatDuration(bpm)

---------------------------------------------------------------------------
(* Claims about the Metronome, checked under SchedSpec *)

\* one minute, in ticks times BpmUnit: d ticks are 60/b seconds at tempo b
\* exactly when d * b = Minute
Minute == 60 * TicksPerSecond * BpmUnit

Times(cs) == [i \in 1..Len(cs) |-> cs[i].time]

Increasing(ts) == \A i \in 1..(Len(ts) - 1) : ts[i] < ts[i + 1]

\* C1: over the whole life of a Metronome, across ticks, tempo and
\* subdivision changes and stop()/start() restarts, the events handed to
\* _playClick have strictly increasing timestamps in the order of their
\* generation (stated for the ticks that return).
C1_EventsStrictlyIncreasing ==
    ~hung => Increasing(lastClick \o Times(clicks))

\* C2: while the scheduler keeps running, each Main event is 60/bpm after
\* the previous Main event, bpm being the tempo of the tick that generated
\* the earlier one; a tempo change leaves the cursor nextTime where it is.
C2_MainBeatSpacing ==
    [][/\ bpm' # bpm => nextTime' = nextTime
       /\ Schedule =>
            LET ms == Mains(clicks')
            IN  /\ \A k \in 1..(Len(ms) - 1) :
                      (ms[k + 1].time - ms[k].time) * bpm = Minute
                /\ (isRunning /\ lastBeat # <<>> /\ ms # <<>>) =>
                      (ms[1].time - lastBeat[1].time) * lastBeat[1].bpm
                         = Minute]_vars

\* C3: for each Main event at time t, with subdivision s and tempo bpm, the
\* tick hands over exactly s - 1 Sub events right after it, the i-th at
\* t + (i/s) * (60/bpm); with s = 1 it hands over none.
C3_SubEvents ==
    [][Schedule =>
         /\ clicks' # <<>> => clicks'[1].main
         /\ \A k \in 1..Len(clicks') :
              clicks'[k].main =>
                /\ \A i \in 1..(subdivision - 1) :
                     /\ k + i <= Len(clicks')
                     /\ ~clicks'[k + i].main
                     /\ (clicks'[k + i].time - clicks'[k].time)
                           * subdivision * bpm = i * Minute
                /\ LET n == k + (IF subdivision > 1 THEN subdivision ELSE 1)
                   IN  n <= Len(clicks') => clicks'[n].main]_vars

\* C3 witness: a tick handed over two beats of three pulses each.
C3_Witness ==
    /\ Len(clicks) = 6
    /\ clicks[1].main /\ ~clicks[2].main /\ ~clicks[3].main
    /\ clicks[4].main /\ ~clicks[5].main /\ ~clicks[6].main

\* C4: start() twice in a row is start() once: one periodic tick is armed
\* and the cursor is initialised once; start() on a running scheduler
\* changes neither isRunning, nextTime nor timerID.
C4_StartIdempotent ==
    [][/\ (Start /\ isRunning) => UNCHANGED <<isRunning, nextTime, timerID>>
       /\ timers' # timers /\ timers \subseteq timers' =>
            ~isRunning /\ Cardinality(timers') = 1]_vars

\* C5: after stop() on a running scheduler no tick runs and no event is
\* generated until the next start(); stop() on a scheduler that is not
\* running changes nothing.
C5_StopCancelsTick ==
    [][/\ (Stop /\ isRunning) => timers' = {}
       /\ (Stop /\ ~isRunning) => UNCHANGED vars
       /\ Schedule => isRunning]_vars

\* a start() called now would not return at its first line, and nothing of
\* an earlier call is left
Startable == ~hung /\ ~isRunning /\ awaiting = 0 /\ timers = {}

\* C18: when resume() fails inside start(), the call ends with that failure
\* and leaves the scheduler as it was before the call: isRunning, the
\* cursor, the timer and the events handed over are unchanged, so a
\* scheduler that was not running is not running, has no tick armed and
\* hands over no event; a later start() can still succeed: it is not
\* turned away, and a start() that waits for resume() can go on to run.
C18_FailedResumeLeavesStopped ==
    /\ [][StartRejected
            => /\ awaiting' = awaiting - 1
               /\ UNCHANGED <<bpm, subdivision, audio, isRunning, timerID,
                              nextTime, timers, now, clicks, lastClick,
                              lastBeat, hung>>
               /\ (~isRunning /\ timers = {})
                     => (~isRunning' /\ timers' = {} /\ clicks' = clicks)
               /\ (~isRunning /\ awaiting = 1 /\ timers = {})
                     => Startable']_vars
    /\ [](Startable
            => ENABLED (Start /\ (isRunning' \/ awaiting' = 1)))
    /\ []((~hung /\ awaiting > 0)
            => ENABLED (StartResumed /\ isRunning' /\ timers' # {}))

\* C18 witness: the context is suspended and the one start() that waited
\* for resume() has ended without running.
C18_Witness ==
    /\ audio = "suspended"
    /\ awaiting = 0
    /\ ~isRunning
    /\ timers = {}
    /\ timerID = NoTimer
    /\ nextTime = <<>>
    /\ clicks = <<>>


\* C22: stop() is not retroactive.  An event handed to the renderer stays
\* scheduled until the audio clock reaches its time: no step, a stop()
\* included, takes an event whose time is still ahead out of the scheduled
\* set, and the step in which isRunning falls leaves the set as it was.
C22_StopNotRetroactive ==
    /\ [][\A e \in scheduled \ scheduled' : e.time <= now']_vars
    /\ [][(isRunning /\ ~isRunning') => scheduled' = scheduled]_vars

\* stopped, no timer armed, with a Main event (its sound and its onBeat
\* callback) still ahead of the clock
C22_Witness ==
    /\ ~isRunning
    /\ timers = {}
    /\ \E e \in scheduled : e.main /\ e.time > now


\* C24: every tick terminates, for every tempo the scheduler can hold:
\* no _schedule() call stays in its loop, and a tick that hands events
\* over leaves the cursor nextTime later than it found it (as stated; a
\* tempo below zero, which setBpm() accepts, makes the cursor go back).
C24_EveryTickTerminates ==
    [][Schedule => /\ ~hung'
                   /\ clicks' # <<>> => nextTime'[1] > nextTime[1]]_vars


\* C25: a tick that ends leaves the cursor at or beyond the window:
\* nextTime >= now + LOOKAHEAD.  It hands over exactly one Main event for
\* each value the cursor passed through below now + LOOKAHEAD: the first at
\* the cursor it found, each next one beat later, the cursor left one beat
\* after the last.  A tick that finds nextTime >= now + LOOKAHEAD hands
\* nothing over and leaves nextTime as it was.
C25_TickFillsWindow ==
    [][(Schedule /\ ~hung') =>
         LET ms == Mains(clicks')
             bd == BeatDuration(bpm)
         IN  /\ nextTime'[1] >= now + LOOKAHEAD
             /\ nextTime[1] < now + LOOKAHEAD =>
                  /\ ms # <<>>
                  /\ ms[1].time = nextTime[1]
                  /\ nextTime'[1] = Last(ms).time + bd
             /\ \A k \in 1..Len(ms) : ms[k].time < now + LOOKAHEAD
             /\ \A k \in 1..(Len(ms) - 1) : ms[k + 1].time = ms[k].time + bd
             /\ nextTime[1] >= now + LOOKAHEAD =>
                  (clicks' = <<>> /\ nextTime' = nextTime)]_vars

\* a tick has handed over two Main events, the cursor is beyond the window
C25_Witness ==
    /\ Len(Mains(clicks)) = 2
    /\ ~hung
    /\ isRunning
    /\ nextTime[1] >= now + LOOKAHEAD


C27_OneTimerOnlyWhileRunning ==
    /\ Cardinality(timers) <= 1
    /\ timers # {} => isRunning

---------------------------------------------------------------------------
(* Claims about the application, checked under Spec *)

\* C6: in every reachable state the scheduler's bpm lies in [20, 300]
\* (as stated; startPracticeMode and handlePass push unclamped tempos).
C6_BpmInRange == Bpm(MinBpm) <= bpm /\ bpm <= Bpm(MaxBpm)

TargetPulseInt == PulseInt(practiceSettings.targetPulse)

\* the pulse-normalized comparison, cross-multiplied
RateReached ==
    practiceState.currentBpm * TargetPulseInt
        >= practiceSettings.targetBpm * practiceState.currentPulse

CountReached ==
    practiceState.correctCount + 1 >= practiceSettings.requiredCorrect

\* C7: a pass() in an Active session completes it exactly when the
\* incremented correctCount has reached requiredCorrect and the
\* pulse-normalized tempo has reached the pulse-normalized target; in every
\* other case the session stays Active.
C7_PassCompletes ==
    [][(HandlePass /\ practiceMode)
         => (~practiceMode' <=> (CountReached /\ RateReached))]_vars

\* C7 witness: a session completed at a tempo below the target's number,
\* at a slower pulse unit than the target's.
C7_Witness ==
    /\ ~practiceMode
    /\ message = "congratulations"
    /\ practiceState.currentPulse < TargetPulseInt
    /\ practiceState.currentBpm < practiceSettings.targetBpm

\* C8: a pass() that brings correctCount to requiredCorrect below the
\* normalized target sets currentBpm to the smaller of the target scaled to
\* the current pulse and currentBpm + increment, so that the normalized
\* tempo does not exceed the normalized target; the scheduler gets the new
\* tempo and correctCount is 0. A pass() that leaves correctCount below
\* requiredCorrect changes neither currentBpm nor the scheduler's tempo.
C8_LevelUp ==
    [][(HandlePass /\ practiceMode)
         => /\ (CountReached /\ ~RateReached)
                 => LET new == practiceState'.currentBpm
                        scaled == practiceSettings.targetBpm
                                     * practiceState.currentPulse
                        raised == practiceState.currentBpm
                                     + practiceSettings.increment
                    IN  /\ new * TargetPulseInt <= scaled
                        /\ new <= raised
                        /\ new * TargetPulseInt = scaled \/ new = raised
                        /\ bpm' = new
                        /\ practiceState'.correctCount = 0
                        /\ practiceState'.currentPulse
                              = practiceState.currentPulse
            /\ ~CountReached
                 => /\ practiceState'.currentBpm = practiceState.currentBpm
                    /\ bpm' = bpm]_vars

\* C8 witness: a level-up that stopped at the target scaled to a pulse unit
\* other than the target's.
C8_Witness ==
    /\ practiceMode
    /\ logged = <<[type |-> "level-up", bpm |-> practiceState.currentBpm]>>
    /\ practiceState.currentPulse # TargetPulseInt
    /\ practiceState.currentBpm * TargetPulseInt
          = practiceSettings.targetBpm * practiceState.currentPulse
    /\ bpm = practiceState.currentBpm

SamePulseSingle ==
    /\ practiceMode
    /\ practiceSettings.requiredCorrect = 1
    /\ practiceState.currentPulse = TargetPulseInt

FirstPassGivesSeventy ==
    (/\ practiceState.currentBpm = Bpm(60)
     /\ practiceSettings.targetBpm = Bpm(120)
     /\ practiceSettings.increment = Bpm(10))
       => (practiceState'.currentBpm = Bpm(70) /\ practiceMode')

\* C9 as stated: with requiredCorrect = 1 and one pulse unit, the first
\* pass() takes 60 to 70 without completing, and the session completes on
\* the same pass() that brings currentBpm to exactly the target.
C9_CompletesOnReachingPass ==
    [][(HandlePass /\ SamePulseSingle)
         => /\ FirstPassGivesSeventy
            /\ (/\ practiceState.currentBpm # practiceSettings.targetBpm
                /\ practiceState'.currentBpm = practiceSettings.targetBpm)
                  => ~practiceMode']_vars

\* C9 amended: with requiredCorrect = 1 and one pulse unit, the first
\* pass() takes 60 to 70 without completing; every pass() made below the
\* target, the one that brings currentBpm to exactly the target included,
\* leaves the session Active, and the session completes on the next pass(),
\* the first one made at the target.
C9_CompletesOnNextPass ==
    [][(HandlePass /\ SamePulseSingle)
         => /\ FirstPassGivesSeventy
            /\ practiceState.currentBpm < practiceSettings.targetBpm
                  => /\ practiceMode'
                     /\ practiceState'.currentBpm
                           <= practiceSettings.targetBpm
            /\ practiceState.currentBpm >= practiceSettings.targetBpm
                  => ~practiceMode']_vars

\* C9 witness: the pass() that brought 110 to exactly the target 120 has
\* left the session Active.
C9_Witness ==
    /\ practiceMode
    /\ practiceSettings.requiredCorrect = 1
    /\ practiceSettings.increment = Bpm(10)
    /\ practiceSettings.targetBpm = Bpm(120)
    /\ practiceState.currentPulse = TargetPulseInt
    /\ practiceState.currentBpm = Bpm(120)
    /\ logged = <<[type |-> "level-up", bpm |-> Bpm(120)]>>

\* C11: after every fail() on an Active session correctCount is 0,
\* currentBpm is the larger of 20 and the previous currentBpm minus the
\* penalty, the scheduler's tempo is the new currentBpm, and the session is
\* still Active.
C11_FailLowersTempo ==
    [][(HandleFail /\ practiceMode)
         => /\ practiceState'.correctCount = 0
            /\ practiceState'.currentBpm
                  = Max(Bpm(MinBpm),
                        practiceState.currentBpm - practiceSettings.penalty)
            /\ bpm' = practiceState'.currentBpm
            /\ practiceMode']_vars

\* C11 witness: a fail() whose penalty of 40 would have taken the tempo
\* below 20 has left it at 20, after a pass had been counted.
C11_Witness ==
    /\ practiceMode
    /\ practiceSettings.penalty = Bpm(40)
    /\ logged = <<[type |-> "fail", bpm |-> Bpm(MinBpm)]>>
    /\ practiceState.currentBpm = Bpm(MinBpm)
    /\ practiceState.correctCount = 0
    /\ bpm = Bpm(MinBpm)

\* C12: from consecutiveFails = 0, three fail() in a row show the break
\* suggestion exactly once, on the third; consecutiveFails is 1 after the
\* first, 2 after the second, and is reset to 0 by the third and not
\* before.
C12_BreakOnThirdFail ==
    [][(HandleFail /\ practiceMode)
         => LET fails == practiceState.consecutiveFails
            IN  /\ fails \in 0..(BreakAfter - 1)
                /\ fails < BreakAfter - 1
                      => /\ practiceState'.consecutiveFails = fails + 1
                         /\ message' # "break"
                /\ fails = BreakAfter - 1
                      => /\ practiceState'.consecutiveFails = 0
                         /\ message' = "break"]_vars

\* C12 witness: the third fail() in a row has shown the suggestion and
\* reset the counter.
C12_Witness ==
    /\ practiceMode
    /\ message = "break"
    /\ practiceState.consecutiveFails = 0
    /\ Len(logged) = 1
    /\ logged[1].type = "fail"

\* the + or - button pressed in an Active session
ScalePulseGesture == practiceMode /\ (StartHoldInc \/ StartHoldDec)

\* C13: for every Active state with a pulse unit below 16, a double followed
\* by a halve restores currentBpm and the pulse unit (as stated; the double
\* computes from the scheduler's tempo and stops at 300).
C13_DoubleHalveRestores ==
    (practiceMode /\ practiceState.currentPulse < MaxPulse)
       => /\ Halved(Doubled(bpm)) = practiceState.currentBpm
          /\ (practiceState.currentPulse * 2) \div 2
                = practiceState.currentPulse

\* C14: every pulse change that takes effect leaves the ratio of currentBpm
\* to the pulse unit unchanged (as stated; cross-multiplied).
C14_ScaleKeepsRate ==
    [][(ScalePulseGesture
          /\ practiceState'.currentPulse # practiceState.currentPulse)
         => practiceState'.currentBpm * practiceState.currentPulse
               = practiceState.currentBpm * practiceState'.currentPulse]_vars

PulseUnitValues == {1, 2, 4, 8, 16}

\* C15: a pulse change changes at most currentBpm, the pulse unit and the
\* scheduler's tempo: correctCount and consecutiveFails stay, the session
\* stays Active, nothing is logged as a pass, fail or level-up and no
\* message is shown; a double at pulse unit 16 and a halve at pulse unit 1
\* change nothing; the pulse unit stays one of 1, 2, 4, 8, 16.
C15_ScaleOnlyReframes ==
    [][ScalePulseGesture
         => /\ practiceState'.correctCount = practiceState.correctCount
            /\ practiceState'.consecutiveFails
                  = practiceState.consecutiveFails
            /\ practiceMode'
            /\ logged' = <<>>
            /\ message' = "none"
            /\ UNCHANGED <<subdivision, audio, isRunning, timerID, nextTime,
                           timers, awaiting, now, clicks, lastClick,
                           lastBeat, hung, stopwatchInterval,
                           practiceSettings, monitor>>
            /\ practiceState.currentPulse \in PulseUnitValues
            /\ practiceState'.currentPulse \in PulseUnitValues
            /\ (StartHoldInc /\ practiceState.currentPulse = MaxPulse)
                  => UNCHANGED <<bpm, practiceState>>
            /\ (StartHoldDec /\ practiceState.currentPulse = 1)
                  => UNCHANGED <<bpm, practiceState>>]_vars

\* C15 witness: two doubles from a quarter pulse have reached pulse unit
\* 16 with a counted pass kept.
C15_Witness ==
    /\ practiceMode
    /\ practiceSettings.startingPulse = "quarter"
    /\ practiceState.currentPulse = MaxPulse
    /\ practiceState.correctCount = 1
    /\ practiceState.currentBpm = bpm
    /\ logged = <<>>

\* the settings an Active session needs
SettingsValid ==
    /\ practiceSettings.requiredCorrect >= 1
    /\ practiceSettings.increment >= Bpm(1)
    /\ practiceSettings.penalty >= 0

\* the form's value where it is valid, else the nearest valid value
NearestValid(least, typed) == IF typed < least THEN least ELSE typed

\* C19: whenever a session is Active the settings in use satisfy
\* requiredCorrect >= 1, increment >= 1 and penalty >= 0, whatever the form
\* held; a malformed value has been replaced by the nearest valid value
\* (as stated; a typed 0 keeps the previous setting instead).
C19_SettingsClamped ==
    /\ [](practiceMode => SettingsValid)
    /\ [][\A f \in PracticeForms :
            StartPracticeClick(f)
              => /\ practiceSettings'.requiredCorrect
                       = NearestValid(1, f.required)
                 /\ practiceSettings'.increment
                       = Bpm(NearestValid(1, f.increment))
                 /\ practiceSettings'.penalty
                       = Bpm(NearestValid(0, f.penalty))]_vars

\* C21: the stopwatch, whose seconds the fatigue monitor reads as active
\* time, counts only while the scheduler is running: in every reachable
\* state its interval timer is armed only if isRunning is true, after a
\* failed start() and while a start() is pending included (as stated;
\* startMetronome() starts the stopwatch after a failed start() too).
C21_StopwatchOnlyWhileRunning == stopwatchInterval => isRunning


\* C23: leaving practice mode, by the exit button or by completing the
\* session, does not touch the scheduler: the step in which practiceMode
\* falls leaves bpm, subdivision, the cursor nextTime, isRunning and the
\* timers as they were.  While no session is active, pass() and fail()
\* change no practice or scheduler state, show no message and log nothing.
C23_ExitLeavesScheduler ==
    /\ [][(practiceMode /\ ~practiceMode') => UNCHANGED metroVars]_vars
    /\ [][(~practiceMode /\ (HandlePass \/ HandleFail)) =>
            /\ UNCHANGED <<metroVars, practiceMode, practiceSettings,
                           practiceState, monitor, stopwatchInterval>>
            /\ logged' = <<>>
            /\ message' = "none"]_vars

\* the session was left by the exit button and the scheduler still runs
C23_Witness ==
    /\ ~practiceMode
    /\ message = "exited"
    /\ logged = <<ExitEntry>>
    /\ isRunning
    /\ timers # {}


\* C28: while a practice session is active the scheduler's bpm equals the
\* session's currentBpm, in every reachable state: after any interleaving
\* of pass, fail, pulse changes and the tempo gestures accepted in practice
\* mode (as stated; a touch drag sets the scheduler's tempo alone).
C28_SchedulerFollowsSession ==
    practiceMode => bpm = practiceState.currentBpm


\* C29: fail() never raises the tempo: in an active session, whatever the
\* settings it was started from, currentBpm after fail() is at most
\* currentBpm before it (as stated; the floor of 20 raises a tempo that
\* started below 20).
C29_FailNeverRaises ==
    [][(HandleFail /\ practiceMode) =>
          practiceState'.currentBpm <= practiceState.currentBpm]_vars


\* C30: the break suggestion counts uninterrupted failures only.
\* consecutiveFails is 0 when a session starts and after every pass(); a
\* fail() that shows the suggestion finds it at BreakAfter - 1 and resets
\* it, any other fail() adds one; no other step of an active session
\* changes it.  So the suggestion is shown by the third fail() since the
\* later of the last pass(), the last suggestion and the session's start,
\* and by no other.
C30_BreakCountsUninterrupted ==
    [][/\ (~practiceMode /\ practiceMode') =>
            practiceState'.consecutiveFails = 0
       /\ (HandlePass /\ practiceMode) =>
            (practiceState'.consecutiveFails = 0 /\ message' # "break")
       /\ (HandleFail /\ practiceMode) =>
            /\ message' = "break" <=>
                 practiceState.consecutiveFails = BreakAfter - 1
            /\ practiceState'.consecutiveFails =
                 IF message' = "break" THEN 0
                 ELSE practiceState.consecutiveFails + 1
       /\ (practiceMode /\ practiceMode' /\ ~HandlePass /\ ~HandleFail) =>
            /\ practiceState'.consecutiveFails
                  = practiceState.consecutiveFails
            /\ message' = "break" => message = "break"]_vars

\* a pass has raised the tempo from 60 to 70 and, with no penalty, three
\* fails since have shown the suggestion
C30_Witness ==
    /\ practiceMode
    /\ message = "break"
    /\ practiceSettings.startingBpm = Bpm(60)
    /\ practiceSettings.penalty = 0
    /\ practiceState.currentBpm = Bpm(70)
    /\ practiceState.consecutiveFails = 0

---------------------------------------------------------------------------
(* Claims about the tap estimator, checked under TapSpec *)

\* the buffer a tap leaves: the latest taps in order, five at most
LatestTaps ==
    LET all == tapTimes \o <<wall>>
    IN  IF Len(all) <= 5 THEN all
        ELSE [i \in 1..5 |-> all[i + Len(all) - 5]]

\* the sum of the intervals of the buffer a tap leaves, in ms
TapSpan == tapTimes'[Len(tapTimes')] - tapTimes'[1]

\* C16 as stated: after a tap that leaves k >= 2 timestamps in the buffer
\* (the latest taps in order, five at most) the scheduler's tempo is 60000
\* divided by the mean of the k - 1 intervals in ms, clamped to [20, 300];
\* a tap that leaves one timestamp leaves the tempo unchanged.
C16_TapTempoIsQuotient ==
    [][Tap =>
         /\ tapTimes' = LatestTaps
         /\ Len(tapTimes') = 1 => bpm' = bpm
         /\ Len(tapTimes') >= 2 =>
              LET num == 60000 * (Len(tapTimes') - 1) * BpmUnit
              IN  IF num >= Bpm(300) * TapSpan THEN bpm' = Bpm(300)
                  ELSE IF num <= Bpm(20) * TapSpan THEN bpm' = Bpm(20)
                  ELSE bpm' * TapSpan = num]_vars

\* C16 amended: after a tap that leaves k >= 2 timestamps in the buffer
\* (the latest taps in order, five at most) the scheduler's tempo is 60000
\* divided by the mean of the k - 1 intervals in ms, rounded to the nearest
\* whole number of BPM (a half upwards) and then clamped to [20, 300]
\* (300 when all the taps have one timestamp); a tap that leaves one
\* timestamp leaves the tempo unchanged.
C16_TapTempoIsRoundedQuotient ==
    [][Tap =>
         /\ tapTimes' = LatestTaps
         /\ Len(tapTimes') = 1 => bpm' = bpm
         /\ Len(tapTimes') >= 2 =>
              LET num == 60000 * (Len(tapTimes') - 1)
              IN  IF TapSpan = 0 THEN bpm' = Bpm(300)
                  ELSE \E n \in 0..num :
                         /\ 2 * n * TapSpan <= 2 * num + TapSpan
                         /\ 2 * num + TapSpan < 2 * (n + 1) * TapSpan
                         /\ bpm' = Bpm(IF n > 300 THEN 300
                                       ELSE IF n < 20 THEN 20 ELSE n)]_vars

\* C16 witness: three taps 1.5 s and 2 s apart have set the tempo to 34,
\* the rounding of 60000 / 1750.
C16_Witness ==
    /\ tapTimes = <<0, 1500, 3500>>
    /\ lastTap = <<3500>>
    /\ bpm = Bpm(34)

\* C17: when more than 5 s have passed since the latest tap the buffer is
\* empty, so that the next tap is alone in the buffer and sets no tempo;
\* every tap cancels the idle reset that is pending and arms a new one,
\* due 5 s later: at most one idle reset is pending at any time.
C17_IdleResetClearsBuffer ==
    /\ []((lastTap # <<>> /\ wall - lastTap[1] > 5000) => tapTimes = <<>>)
    /\ [](Cardinality(idleResets) <= 1)
    /\ [][Tap =>
            /\ idleResets' = {wall + 5000}
            /\ tapTimeout' = <<wall + 5000>>
            /\ (lastTap # <<>> /\ wall - lastTap[1] > 5000)
                  => (tapTimes' = <<wall>> /\ bpm' = bpm)]_vars

\* C17 witness: two taps have set the tempo to 120, more than 5 s have
\* passed since the second, the buffer is empty and no reset is pending.
C17_Witness ==
    /\ lastTap # <<>>
    /\ wall - lastTap[1] > 5000
    /\ tapTimes = <<>>
    /\ idleResets = {}
    /\ bpm = Bpm(120)


\* C31: the tap buffer is cleared by the idle reset only, 5 s after the
\* latest tap: a tap made at most 5 s after the tap before it finds that
\* tap in the buffer, so that it leaves at least two timestamps and sets
\* the tempo to their estimate (as stated; exitTapMode() clears the buffer
\* 2 s after the latest tap).
C31_BufferKeptFiveSeconds ==
    /\ [][(tapTimes # <<>> /\ tapTimes' = <<>>) =>
            wall - lastTap[1] >= IdleResetMs]_vars
    /\ [][(Tap /\ lastTap # <<>> /\ wall - lastTap[1] <= IdleResetMs) =>
            /\ Len(tapTimes') >= 2
            /\ tapTimes'[Len(tapTimes') - 1] = lastTap[1]
            /\ bpm' = TapEstimate(tapTimes')]_vars

---------------------------------------------------------------------------
(* Claims about the fatigue monitor, checked under MonitorSpec *)

\* a check of the monitor that shows its message
MonitorEmits == MonitorTick /\ message' = "fatigue"

\* the monitor with the stopwatch reading taken as the active time: it
\* shows its message at most once in a session (armed by the start of a
\* session only, disarmed by the check that shows the message), only at a
\* check where the stopwatch has counted at least 30 minutes since the
\* session started and currentBpm is below targetBpm, and it is not armed
\* once the session has exited or completed.
FatigueByStopwatch ==
    /\ [](monitor => practiceMode)
    /\ [][/\ MonitorEmits
               => /\ practiceMode
                  /\ stopwatchSeconds - practiceState.stopwatchStart
                        >= 30 * 60
                  /\ practiceState.currentBpm < practiceSettings.targetBpm
                  /\ ~monitor'
          /\ (monitor' /\ ~monitor) => (practiceMode' /\ ~practiceMode)
          /\ (message' = "fatigue" /\ message # "fatigue")
               => MonitorTick]_vars

\* the seconds of this session in which the scheduler was running, as far
\* as the stopwatch counted them
ActiveSeconds ==
    stopwatchSeconds - practiceState.stopwatchStart - idleCounted

\* C20: within one session the monitor shows its message at most once,
\* only at a check where at least 30 minutes of active time (time with the
\* scheduler running) have passed since the session started and currentBpm
\* is below targetBpm, and it shows nothing once the session has exited or
\* completed (as stated; the stopwatch also counts while the scheduler is
\* not running).
C20_FatigueMonitorOnce ==
    /\ [](monitor => practiceMode)
    /\ [][MonitorEmits
            => /\ practiceMode
               /\ ActiveSeconds >= 30 * 60
               /\ practiceState.currentBpm < practiceSettings.targetBpm
               /\ ~monitor']_vars

\* a session started at a stopwatch reading of 1 s has been shown the
\* message at the first check after 30 minutes of stopwatch time, and the
\* monitor is disarmed
FatigueShown ==
    /\ practiceMode
    /\ message = "fatigue"
    /\ ~monitor
    /\ practiceState.stopwatchStart = 1
    /\ stopwatchSeconds = FatigueSeconds + 1
    /\ practiceState.currentBpm < practiceSettings.targetBpm

---------------------------------------------------------------------------
(* Claims about a pass-only session, checked under PassSpec *)

\* C10: from any valid settings and any Active state, a run in which only
\* pass() events occur completes the session after finitely many of them.
C10_PassOnlyCompletes == <>(~practiceMode)

\* C10 witness: a session completed by passes alone, after a level-up to
\* the target scaled to a pulse unit other than the target's.
C10_Witness ==
    /\ ~practiceMode
    /\ message = "congratulations"
    /\ practiceState.currentPulse # TargetPulseInt
    /\ practiceState.currentBpm * TargetPulseInt
          = practiceSettings.targetBpm * practiceState.currentPulse
    /\ practiceState.currentBpm \notin PassTempos

=============================================================================
